---- MODULE Spec2Model ----
(***************************************************************************)
(* Gold vault monitor: the breach-classification engine of                 *)
(* server/verify_logic.py with its identity registry and the event store   *)
(* of server/database.py, driven by the /ingest handler of server/main.py. *)
(*                                                                         *)
(* Values keep the Python type they have in the program: a timestamp is an *)
(* ISO string in the payload and in the vault_events table (String column) *)
(* and a datetime after datetime.fromisoformat; purity is a float, kept    *)
(* here in hundredths of a percent (99.0 is 9900).                         *)
(***************************************************************************)
EXTENDS Integers, Sequences, FiniteSets, TLC

VARIABLES
    EXPECTED_RFID_BY_BAR,  \* verify_logic.EXPECTED_RFID_BY_BAR (process-wide dict)
    vault_events,          \* rows of the vault_events table, in insertion (id) order
    last,                  \* the last completed /ingest call: request, registry before it, outcome
    pc,                    \* per worker thread: position inside its /ingest call
    req,                   \* per worker thread: the request being handled
    loc,                   \* per worker thread: locals of classify_event
    gw                     \* the gateway's side: a reading, the packet built from it, its verification

vars == <<EXPECTED_RFID_BY_BAR, vault_events, last, pc, req, loc, gw>>

----------------------------------------------------------------------------
(* Bounds of the model *)

MaxTime == 2      \* ISO timestamps are the instants 1..MaxTime
MaxEvents == 2    \* /ingest is served while the table holds fewer rows than this
MaxUidLen == 12   \* the rfid_uid of a serialized reading has 0..MaxUidLen characters
MaxDataLen == 33  \* byte strings handed to the cipher have 0..MaxDataLen bytes
MaxReadings == 2  \* readings the gateway sends in one run of its process

----------------------------------------------------------------------------
(* Program constants *)

PURITY_MIN == 9900
BLOCK_SIZE == 16

\* gateway/simulated_gateway.py: degrees are counted in units of 0.0001
VAULT_ID == "VLT-001"
BAR_ID == "BAR-001"
EXPECTED_RFID == "TAG12345"
VAULT_LAT == 129876
VAULT_LON == 801234
GPS_JITTER == 5
GpsBreachOffset == 100

ConfiguredBar == "BAR-001"
ConfiguredRfid == "TAG12345"

InitialRegistry == [b \in {ConfiguredBar} |-> ConfiguredRfid]

----------------------------------------------------------------------------
(* Python values *)

None == [type |-> "NoneType", t |-> 0]              \* None, NULL in a column
IsoStr(n) == [type |-> "str", t |-> n]              \* the ISO-8601 string of instant n
Datetime(n) == [type |-> "datetime", t |-> n]       \* the datetime object of instant n

Float(v) == [type |-> "float", v |-> v]
Text == [type |-> "str", v |-> 0]               \* a string float() cannot parse
BigInt == [type |-> "int", v |-> 0]             \* an int beyond the float range (10**400)

Returned(status, reasons, queried) ==
    [raised |-> "", status |-> status, reasons |-> reasons, queried |-> queried]
Raised(exc, queried) ==
    [raised |-> exc, status |-> "", reasons |-> <<>>, queried |-> queried]

----------------------------------------------------------------------------
(* server/verify_logic.py *)

\* float(payload.get("purity", 0.0)) under except (TypeError, ValueError)
ParsePurity(raw) ==
    CASE raw.type = "float" -> [raised |-> "", v |-> raw.v]
      [] raw.type = "str"   -> [raised |-> "", v |-> 0]
      [] raw.type = "int"   -> [raised |-> "OverflowError", v |-> 0]

\* datetime.fromisoformat(str(ts_raw)) under except Exception: str(None) is
\* "None", which fromisoformat rejects
ParseTimestamp(ts_raw) ==
    IF ts_raw.type = "str"
    THEN Datetime(ts_raw.t)
    ELSE None

InRegistry(registry, bar_id) == bar_id \in DOMAIN registry

Learn(registry, bar_id, rfid_uid) ==
    [b \in (DOMAIN registry) \cup {bar_id} |->
        IF b = bar_id THEN rfid_uid ELSE registry[b]]

\* a variant that takes the UID of every reading as the baseline
get_expected_rfid_overwriting(registry, bar_id, rfid_uid) ==
    [expected |-> rfid_uid, registry |-> Learn(registry, bar_id, rfid_uid)]

\* _get_expected_rfid: the expected UID and the registry it leaves
get_expected_rfid(registry, bar_id, rfid_uid) ==
    IF InRegistry(registry, bar_id)
    THEN [expected |-> registry[bar_id], registry |-> registry]
    ELSE [expected |-> rfid_uid, registry |-> Learn(registry, bar_id, rfid_uid)]

\* ORDER BY timestamp DESC on a String column: a <= b in SQLite's order, where
\* NULL sorts below every string and ISO strings of one format sort by instant
ColumnLessEq(a, b) ==
    \/ a.type = "NoneType"
    \/ a.type = "str" /\ b.type = "str" /\ a.t <= b.t

\* a variant that leaves the filter on bar_id out
RowsOf_any_unit(events, bar_id) == 1..Len(events)

RowsOf(events, bar_id) ==
    {i \in 1..Len(events) : events[i].bar_id = bar_id}

\* _get_last_event_time: timestamp column of the first row of
\* filter(bar_id == bar_id).order_by(timestamp.desc()), None without a row
get_last_event_time(events, bar_id) ==
    LET rows == RowsOf(events, bar_id)
    IN  IF rows = {}
        THEN None
        ELSE LET top == CHOOSE i \in rows :
                            \A j \in rows : ColumnLessEq(events[j].timestamp, events[i].timestamp)
             IN  events[top].timestamp

\* timestamp <= last_ts: Python orders two datetimes and raises TypeError
\* for a datetime against a str
LessEq(a, b) ==
    IF a.type = b.type
    THEN [raised |-> "", v |-> a.t <= b.t]
    ELSE [raised |-> "TypeError", v |-> FALSE]

\* reason strings; the two f-strings keep the values they embed
Reason(msg) == [msg |-> msg, tamper_status |-> "", purity |-> 0, purity_min |-> 0]

IntegrityReason == Reason("Payload hash/signature invalid (integrity failure)")
TimestampReason == Reason("Invalid or missing timestamp")
TamperReason(tamper_status) ==
    [Reason("Tamper mesh status = ") EXCEPT !.tamper_status = tamper_status]
RfidReason == Reason("RFID UID mismatch for this bar")
PurityReason(purity) ==
    [Reason("Purity below threshold") EXCEPT !.purity = purity, !.purity_min = PURITY_MIN]
DoorReason == Reason("Vault door opened without associated bar_id/RFID")
ReplayReason == Reason("Timestamp older than or equal to last event (possible replay)")

\* a variant with the comparison turned strict: purity <= PURITY_MIN fails
PurityOk_strict(purity) == ~(purity <= PURITY_MIN)

\* the purity rule: if purity < PURITY_MIN the reading is a breach
PurityOk(purity) == ~(purity < PURITY_MIN)

DoorOk(vault_door_status, bar_id) == ~(vault_door_status = "OPEN" /\ bar_id = "")

\* rule 6 of classify_event, from the value _get_last_event_time returned
Replay(timestamp, last_ts) ==
    IF last_ts = None
    THEN Returned("SECURE", <<>>, TRUE)
    ELSE LET c == LessEq(timestamp, last_ts)
         IN  IF c.raised # ""
             THEN Raised(c.raised, TRUE)
             ELSE IF c.v
                  THEN Returned("BREACH", <<ReplayReason>>, TRUE)
                  ELSE Returned("SECURE", <<>>, TRUE)

\* a variant with a geofence rule after the identity rule
AfterIdentity_with_geofence(payload, purity, timestamp, expected_rfid, events) ==
    IF payload.rfid_uid # expected_rfid
    THEN Returned("BREACH", <<RfidReason>>, FALSE)
    ELSE IF payload.gps_lat > VAULT_LAT + GPS_JITTER \/ payload.gps_lon > VAULT_LON + GPS_JITTER
    THEN Returned("BREACH", <<Reason("GPS position outside the vault geofence")>>, FALSE)
    ELSE IF ~PurityOk(purity)
    THEN Returned("BREACH", <<PurityReason(purity)>>, FALSE)
    ELSE IF ~DoorOk(payload.vault_door_status, payload.bar_id)
    THEN Returned("BREACH", <<DoorReason>>, FALSE)
    ELSE Replay(timestamp, get_last_event_time(events, payload.bar_id))

\* rules 4..6 of classify_event, after _get_expected_rfid returned
AfterIdentity(payload, purity, timestamp, expected_rfid, events) ==
    IF payload.rfid_uid # expected_rfid
    THEN Returned("BREACH", <<RfidReason>>, FALSE)
    ELSE IF ~PurityOk(purity)
    THEN Returned("BREACH", <<PurityReason(purity)>>, FALSE)
    ELSE IF ~DoorOk(payload.vault_door_status, payload.bar_id)
    THEN Returned("BREACH", <<DoorReason>>, FALSE)
    ELSE Replay(timestamp, get_last_event_time(events, payload.bar_id))

\* step 0 and rules 1..2 of classify_event: the outcome when the call ends
\* before the identity rule, "" in field raised and status when it goes on
BeforeIdentity(payload, hash_valid, signature_valid) ==
    LET p == ParsePurity(payload.purity)
        timestamp == ParseTimestamp(payload.timestamp)
    IN  IF p.raised # ""
        THEN Raised(p.raised, FALSE)
        ELSE IF ~hash_valid \/ ~signature_valid
        THEN Returned("BREACH", <<IntegrityReason>>, FALSE)
        ELSE IF timestamp = None
        THEN Returned("BREACH", <<TimestampReason>>, FALSE)
        ELSE IF payload.tamper_status # "INTACT"
        THEN Returned("BREACH", <<TamperReason(payload.tamper_status)>>, FALSE)
        ELSE Returned("", <<>>, FALSE)

ReachesIdentity(payload, hash_valid, signature_valid) ==
    LET b == BeforeIdentity(payload, hash_valid, signature_valid)
    IN  b.raised = "" /\ b.status = ""

\* classify_event run without interruption: its outcome and the registry it leaves
classify_event(payload, hash_valid, signature_valid, registry, events) ==
    LET b == BeforeIdentity(payload, hash_valid, signature_valid)
    IN  IF ~ReachesIdentity(payload, hash_valid, signature_valid)
        THEN [out |-> b, registry |-> registry]
        ELSE LET e == get_expected_rfid(registry, payload.bar_id, payload.rfid_uid)
             IN  [out |-> AfterIdentity(payload, ParsePurity(payload.purity).v,
                                        ParseTimestamp(payload.timestamp),
                                        e.expected, events),
                  registry |-> e.registry]

----------------------------------------------------------------------------
(* server/database.py *)

\* the columns of a vault_events row that the repository's queries read back
VaultEvent(payload, status) ==
    [bar_id |-> payload.bar_id, timestamp |-> payload.timestamp, status |-> status]

save_event(events, payload, out) == Append(events, VaultEvent(payload, out.status))

----------------------------------------------------------------------------
(* gateway/crypto: byte strings are sequences of 0..255 *)

Ok(v) == [raised |-> "", v |-> v]
Fail(exc) == [raised |-> exc, v |-> <<>>]

\* a variant that adds no padding to data already on a block boundary
pkcs7_pad_unless_aligned(data) ==
    LET pad_len == (BLOCK_SIZE - (Len(data) % BLOCK_SIZE)) % BLOCK_SIZE
    IN  data \o [i \in 1..pad_len |-> pad_len]

\* _pkcs7_pad
pkcs7_pad(data) ==
    LET pad_len == BLOCK_SIZE - (Len(data) % BLOCK_SIZE)
    IN  data \o [i \in 1..pad_len |-> pad_len]

\* _pkcs7_unpad: data[-1] of b"" raises IndexError; data[:-pad_len]
pkcs7_unpad(data) ==
    IF Len(data) = 0
    THEN Fail("IndexError")
    ELSE LET pad_len == data[Len(data)]
         IN  IF pad_len < 1 \/ pad_len > BLOCK_SIZE
             THEN Fail("ValueError")
             ELSE Ok(SubSeq(data, 1, Len(data) - pad_len))

\* AES_KEY, the key both ends share, as the bytes it adds to a block
AES_KEY == [j \in 1..BLOCK_SIZE |-> 47 + j]

\* The block cipher and its CBC chaining are the cryptography library's.  They
\* are stood in for by a keyed bijection on blocks, chained the CBC way with
\* addition modulo 256 in the place of XOR: block i of the ciphertext depends
\* on block i of the plaintext, on the key and on block i-1 of the ciphertext
\* (the iv for i = 1), and decryption with the same key and iv inverts it.
RECURSIVE CbcEncrypt(_, _, _)
CbcEncrypt(key, prev, padded) ==
    IF Len(padded) = 0
    THEN <<>>
    ELSE LET c == [j \in 1..BLOCK_SIZE |-> (padded[j] + prev[j] + key[j]) % 256]
         IN  c \o CbcEncrypt(key, c, SubSeq(padded, BLOCK_SIZE + 1, Len(padded)))

RECURSIVE CbcDecrypt(_, _, _)
CbcDecrypt(key, prev, ciphertext) ==
    IF Len(ciphertext) = 0
    THEN <<>>
    ELSE LET c == SubSeq(ciphertext, 1, BLOCK_SIZE)
             p == [j \in 1..BLOCK_SIZE |-> (c[j] - prev[j] - key[j]) % 256]
         IN  p \o CbcDecrypt(key, c, SubSeq(ciphertext, BLOCK_SIZE + 1, Len(ciphertext)))

\* encrypt_aes_cbc with the iv os.urandom(16) returned
encrypt_aes_cbc(plaintext, iv) ==
    [ciphertext |-> CbcEncrypt(AES_KEY, iv, pkcs7_pad(plaintext)), iv |-> iv]

\* decrypt_aes_cbc: Cipher(...) raises ValueError for an iv that is not one
\* block long, decryptor.finalize() raises ValueError for a ciphertext that is
\* no whole number of blocks
decrypt_aes_cbc(ciphertext, iv) ==
    IF Len(iv) # BLOCK_SIZE \/ Len(ciphertext) % BLOCK_SIZE # 0
    THEN Fail("ValueError")
    ELSE pkcs7_unpad(CbcDecrypt(AES_KEY, iv, ciphertext))

\* sha3_256_bytes: SHA3-256 taken as collision-free, a digest names its input
sha3_256_bytes(data) == [sha3_256 |-> data]

\* keys/private_key.pem and keys/public_key.pem hold the two halves of the
\* pair generate_and_save_rsa_keys wrote
KeyPair == 1
load_private_key == [pair |-> KeyPair, half |-> "private"]
load_public_key == [pair |-> KeyPair, half |-> "public"]

\* sign_sha3_256: RSA PKCS#1 v1.5 signature of SHA3_256.new(data)
sign_sha3_256(private_key, data) ==
    [signer |-> private_key.pair, signed |-> sha3_256_bytes(data)]

\* verify_sha3_256: True when the signature is that of SHA3_256.new(data)
\* under the other half of public_key, False otherwise
verify_sha3_256(public_key, data, signature) ==
    /\ signature.signer = public_key.pair
    /\ signature.signed = sha3_256_bytes(data)

\* base64.b64encode(...).decode("utf-8") and its inverse
b64encode(bytes) == [base64 |-> bytes]
b64decode(text) == text.base64

----------------------------------------------------------------------------
(* gateway/simulated_gateway.py *)

\* the keys of asdict(reading) in the order sort_keys=True writes them
SortedKeys ==
    <<"bar_id", "gps_lat", "gps_lon", "purity", "rfid_uid", "tamper_status",
      "timestamp", "vault_door_status", "vault_id">>

\* JSON text, one element per character; a key name, which is a fixed quoted
\* string, is kept as one element: its place in SortedKeys
LBrace == 123
RBrace == 125
Colon == 58
Comma == 44

RECURSIVE Members(_, _)
Members(reading, i) ==
    IF i > Len(SortedKeys)
    THEN <<>>
    ELSE <<i, Colon>> \o reading[SortedKeys[i]]
            \o (IF i < Len(SortedKeys) THEN <<Comma>> ELSE <<>>)
            \o Members(reading, i + 1)

\* json.dumps(asdict(reading), separators=(",", ":"), sort_keys=True).encode("utf-8")
Serialize(reading) == <<LBrace>> \o Members(reading, 1) \o <<RBrace>>

\* a variant that takes the digest of the ciphertext
build_secure_packet_hashing_ciphertext(reading, iv) ==
    LET payload_bytes == Serialize(reading)
        e == encrypt_aes_cbc(payload_bytes, iv)
        digest == sha3_256_bytes(e.ciphertext)
    IN  [vault_id |-> reading.vault_id, bar_id |-> reading.bar_id,
         timestamp |-> reading.timestamp,
         payload_ciphertext |-> b64encode(e.ciphertext), iv |-> b64encode(e.iv),
         hash_sha3_256 |-> b64encode(digest),
         signature |-> b64encode(sign_sha3_256(load_private_key, digest))]

\* build_secure_packet, with the iv encrypt_aes_cbc drew
build_secure_packet(reading, iv) ==
    LET payload_bytes == Serialize(reading)
        digest == sha3_256_bytes(payload_bytes)
        private_key == load_private_key
        signature == sign_sha3_256(private_key, digest)
        e == encrypt_aes_cbc(payload_bytes, iv)
    IN  [vault_id |-> reading.vault_id, bar_id |-> reading.bar_id,
         timestamp |-> reading.timestamp,
         payload_ciphertext |-> b64encode(e.ciphertext), iv |-> b64encode(e.iv),
         hash_sha3_256 |-> b64encode(digest),
         signature |-> b64encode(signature)]

----------------------------------------------------------------------------
(* The packet verifier of the service side (verify_and_decrypt_packet, which *)
(* server/main.py calls): decode, decrypt, recompute and compare the digest, *)
(* verify the signature over the embedded digest with the public key, parse. *)

\* the members of a JSON object text from position i on: key, colon, value
\* characters up to the next comma or the closing brace
RECURSIVE ValueEnd(_, _)
ValueEnd(text, i) ==
    IF i > Len(text) \/ text[i] \in {Comma, RBrace} THEN i ELSE ValueEnd(text, i + 1)

RECURSIVE ParseMembers(_, _, _)
ParseMembers(text, i, acc) ==
    IF i + 1 > Len(text) \/ text[i] \notin 1..Len(SortedKeys) \/ text[i + 1] # Colon
    THEN acc
    ELSE LET e == ValueEnd(text, i + 2)
         IN  ParseMembers(text, e + 1,
                          acc \cup {<<SortedKeys[text[i]], SubSeq(text, i + 2, e - 1)>>})

\* json.loads of the plaintext: the reading, or ParseError
Parse(text) ==
    IF Len(text) < 2 \/ text[1] # LBrace \/ text[Len(text)] # RBrace
    THEN Fail("ParseError")
    ELSE LET members == ParseMembers(text, 2, {})
         IN  IF {m[1] : m \in members} # {SortedKeys[i] : i \in 1..Len(SortedKeys)}
                \/ Cardinality(members) # Len(SortedKeys)
             THEN Fail("ParseError")
             ELSE Ok([k \in {m[1] : m \in members} |->
                        (CHOOSE m \in members : m[1] = k)[2]])

verify_and_decrypt_packet(packet, public_key) ==
    LET digest == b64decode(packet.hash_sha3_256)
        plaintext == decrypt_aes_cbc(b64decode(packet.payload_ciphertext),
                                     b64decode(packet.iv))
    IN  IF plaintext.raised # ""
        THEN [error |-> "CryptoError", plaintext |-> <<>>, hash_ok |-> FALSE,
              signature_ok |-> FALSE, reading |-> Fail("CryptoError")]
        ELSE [error |-> "", plaintext |-> plaintext.v,
              hash_ok |-> sha3_256_bytes(plaintext.v) = digest,
              signature_ok |-> verify_sha3_256(public_key, digest,
                                               b64decode(packet.signature)),
              reading |-> Parse(plaintext.v)]

NoPacket ==
    [vault_id |-> <<>>, bar_id |-> <<>>, timestamp |-> <<>>,
     payload_ciphertext |-> b64encode(<<>>), iv |-> b64encode(<<>>),
     hash_sha3_256 |-> b64encode(sha3_256_bytes(<<>>)),
     signature |-> b64encode(sign_sha3_256(load_private_key, sha3_256_bytes(<<>>)))]

NoVerdict ==
    [error |-> "", plaintext |-> <<>>, hash_ok |-> FALSE, signature_ok |-> FALSE,
     reading |-> Fail("")]

NoGateway ==
    [stage |-> "off", reading |-> <<>>, packet |-> NoPacket, checked |-> NoVerdict,
     data |-> <<>>, iv |-> <<>>, ciphertext |-> <<>>, result |-> Fail(""),
     sent |-> 0, key_reads |-> 0]

----------------------------------------------------------------------------
(* server/main.py: the /ingest handler, one call served at a time *)

Bars == {ConfiguredBar, "BAR-002", ""}
Rfids == {ConfiguredRfid, "TAG99999"}
Purities == {Float(PURITY_MIN - 1), Float(PURITY_MIN), Float(10000), Text, BigInt}
TamperStatuses == {"INTACT", "CUT"}
DoorStatuses == {"CLOSED", "OPEN", "FORCED_OPEN"}
Timestamps == {IsoStr(n) : n \in 1..MaxTime} \cup {None}

Payloads ==
    [bar_id : Bars, rfid_uid : Rfids, purity : Purities,
     tamper_status : TamperStatuses, vault_door_status : DoorStatuses,
     timestamp : Timestamps]

Threads == {1, 2}

NoPayload ==
    [bar_id |-> "", rfid_uid |-> "", purity |-> Float(0), tamper_status |-> "",
     vault_door_status |-> "", timestamp |-> None]

NoCall ==
    [called |-> FALSE, payload |-> NoPayload, hash_valid |-> FALSE,
     signature_valid |-> FALSE, registry |-> InitialRegistry,
     out |-> Returned("", <<>>, FALSE)]

Call(payload, hash_valid, signature_valid, registry, out) ==
    [called |-> TRUE, payload |-> payload, hash_valid |-> hash_valid,
     signature_valid |-> signature_valid, registry |-> registry, out |-> out]

NoRequest == [payload |-> NoPayload, hash_valid |-> FALSE, signature_valid |-> FALSE]
NoLocals == [expected_rfid |-> "", last_ts |-> None, out |-> Returned("", <<>>, FALSE)]

Init ==
    /\ EXPECTED_RFID_BY_BAR = InitialRegistry
    /\ vault_events = <<>>
    /\ last = NoCall
    /\ pc = [t \in Threads |-> "idle"]
    /\ req = [t \in Threads |-> NoRequest]
    /\ loc = [t \in Threads |-> NoLocals]
    /\ gw = NoGateway

\* ingest: classify_event, then save_event; an exception of classify_event
\* leaves the handler before save_event
ingest(payload, hash_valid, signature_valid) ==
    LET c == classify_event(payload, hash_valid, signature_valid,
                            EXPECTED_RFID_BY_BAR, vault_events)
    IN  /\ EXPECTED_RFID_BY_BAR' = c.registry
        /\ vault_events' = IF c.out.raised # ""
                           THEN vault_events
                           ELSE save_event(vault_events, payload, c.out)
        /\ last' = Call(payload, hash_valid, signature_valid, EXPECTED_RFID_BY_BAR, c.out)
        /\ UNCHANGED <<pc, req, loc, gw>>

\* the handler's return: the response leaves the server, which serves the next call
respond ==
    /\ last # NoCall
    /\ last' = NoCall
    /\ UNCHANGED <<EXPECTED_RFID_BY_BAR, vault_events, pc, req, loc, gw>>

\* one call is served at a time
Ingest ==
    /\ last = NoCall
    /\ Len(vault_events) < MaxEvents
    /\ \E payload \in Payloads, hash_valid \in BOOLEAN, signature_valid \in BOOLEAN :
            ingest(payload, hash_valid, signature_valid)

Next == Ingest \/ respond

Spec == Init /\ [][Next]_vars

----------------------------------------------------------------------------
(* The readings of the gateway's sensor simulation, and /ingest served with  *)
(* payloads that carry the location fields                                    *)

\* simulate_sensor_reading: the readings a scenario can produce; purity is
\* round(random.uniform(lo, hi), 2), the timestamp is the time of the call
simulate_sensor_reading(scenario) ==
    [timestamp : {IsoStr(n) : n \in 1..MaxTime},
     vault_id : {VAULT_ID},
     bar_id : {BAR_ID},
     rfid_uid : {IF scenario = "rfid_mismatch" THEN "TAG99999" ELSE EXPECTED_RFID},
     purity : {Float(p) : p \in IF scenario = "low_purity" THEN 9400..9500 ELSE 9870..9980},
     gps_lat : IF scenario = "gps_breach"
               THEN {VAULT_LAT + GpsBreachOffset}
               ELSE (VAULT_LAT - GPS_JITTER)..(VAULT_LAT + GPS_JITTER),
     gps_lon : IF scenario = "gps_breach"
               THEN {VAULT_LON + GpsBreachOffset}
               ELSE (VAULT_LON - GPS_JITTER)..(VAULT_LON + GPS_JITTER),
     tamper_status : {IF scenario = "tamper" THEN "CUT" ELSE "INTACT"},
     vault_door_status : {IF scenario = "vault_open" THEN "OPEN"
                          ELSE IF scenario = "forced_open" THEN "FORCED_OPEN"
                          ELSE "CLOSED"}]

\* a payload of the fields classify_event reads, with vault_id and a location
Located(payload, gps_lat, gps_lon) ==
    [timestamp |-> payload.timestamp, vault_id |-> VAULT_ID, bar_id |-> payload.bar_id,
     rfid_uid |-> payload.rfid_uid, purity |-> payload.purity,
     gps_lat |-> gps_lat, gps_lon |-> gps_lon,
     tamper_status |-> payload.tamper_status,
     vault_door_status |-> payload.vault_door_status]

Latitudes == {VAULT_LAT, VAULT_LAT + GpsBreachOffset}
Longitudes == {VAULT_LON, VAULT_LON + GpsBreachOffset}

\* where a reading is taken: at the vault, or moved away as in the gps_breach
\* scenario
Locations ==
    {<<VAULT_LAT, VAULT_LON>>, <<VAULT_LAT + GpsBreachOffset, VAULT_LON + GpsBreachOffset>>}

LocatedPayloads ==
    {Located(payload, at[1], at[2]) :
        payload \in [timestamp : Timestamps, bar_id : Bars, rfid_uid : Rfids,
                     purity : {Float(PURITY_MIN - 1), Float(PURITY_MIN)},
                     tamper_status : TamperStatuses, vault_door_status : DoorStatuses],
        at \in Locations}

IngestLocated ==
    /\ last = NoCall
    /\ Len(vault_events) < MaxEvents
    /\ \E payload \in LocatedPayloads, hash_valid \in BOOLEAN :
            ingest(payload, hash_valid, TRUE)

LocationNext == IngestLocated \/ respond

LocationSpec == Init /\ [][LocationNext]_vars

----------------------------------------------------------------------------
(* server/dashboard/dashboard.py: what the page shows for a table *)

\* str.upper() of a status
Upper(status) ==
    CASE status = "breach" -> "BREACH"
      [] status = "secure" -> "SECURE"
      [] status = "alert" -> "ALERT"
      [] OTHER -> status

\* load_events: the rows, newest first
load_events(events) ==
    [i \in 1..Len(events) |->
        [Time |-> events[Len(events) + 1 - i].timestamp,
         Bar |-> events[Len(events) + 1 - i].bar_id,
         Status |-> events[Len(events) + 1 - i].status]]

\* the rows the status filter shows
filtered_df(df, filt_status) ==
    IF filt_status = "ALL"
    THEN df
    ELSE IF filt_status = "BREACH"
    THEN SelectSeq(df, LAMBDA r : Upper(r.Status) = "ALERT")
    ELSE SelectSeq(df, LAMBDA r : Upper(r.Status) = filt_status)

\* the rows the breach summary counts
breach_df(df) == SelectSeq(df, LAMBDA r : Upper(r.Status) = "ALERT")

\* the breach summary: st.error with the total, or st.success
breach_summary(df) ==
    IF breach_df(df) # <<>>
    THEN [shown |-> "Total breaches (ALERT events)", total |-> Len(breach_df(df))]
    ELSE [shown |-> "No breaches detected.", total |-> 0]

----------------------------------------------------------------------------
(* server/main.py: /ingest calls served by concurrent worker threads.  A     *)
(* thread is interrupted only between two accesses to the registry or the    *)
(* table; what it computes on its own locals in between is one step.         *)

ConcPayloads ==
    [bar_id : {ConfiguredBar, "BAR-002"}, rfid_uid : Rfids,
     purity : {Float(PURITY_MIN)},
     tamper_status : {"INTACT"}, vault_door_status : {"CLOSED"},
     timestamp : {IsoStr(n) : n \in 1..MaxTime}]

InFlight == {t \in Threads : pc[t] \notin {"idle", "done"}}

\* where a thread goes with the outcome it has so far
Goto(out, next) ==
    IF out.raised # "" THEN "done"
    ELSE IF out.status # "" THEN "save"
    ELSE next

\* the call starts: step 0 and rules 1..2 of classify_event
begin(t, payload, hash_valid, signature_valid) ==
    LET b == BeforeIdentity(payload, hash_valid, signature_valid)
    IN  /\ pc[t] = "idle"
        /\ Len(vault_events) + Cardinality(InFlight) < MaxEvents
        /\ req' = [req EXCEPT ![t] = [payload |-> payload, hash_valid |-> hash_valid,
                                      signature_valid |-> signature_valid]]
        /\ loc' = [loc EXCEPT ![t] = [NoLocals EXCEPT !.out = b]]
        /\ pc' = [pc EXCEPT ![t] = Goto(b, "lookup")]
        /\ UNCHANGED <<EXPECTED_RFID_BY_BAR, vault_events, last, gw>>

\* rules 3..5 of classify_event once expected_rfid is known; rule 6 is left
\* to the query step
AfterLookup(t, expected_rfid) ==
    LET payload == req[t].payload
        out == IF payload.rfid_uid # expected_rfid
               THEN Returned("BREACH", <<RfidReason>>, FALSE)
               ELSE IF ~PurityOk(ParsePurity(payload.purity).v)
               THEN Returned("BREACH", <<PurityReason(ParsePurity(payload.purity).v)>>, FALSE)
               ELSE IF ~DoorOk(payload.vault_door_status, payload.bar_id)
               THEN Returned("BREACH", <<DoorReason>>, FALSE)
               ELSE Returned("", <<>>, FALSE)
    IN  /\ loc' = [loc EXCEPT ![t].expected_rfid = expected_rfid, ![t].out = out]
        /\ pc' = [pc EXCEPT ![t] = Goto(out, "query")]

\* _get_expected_rfid, the membership test and the read of a configured entry
lookup(t) ==
    /\ pc[t] = "lookup"
    /\ IF InRegistry(EXPECTED_RFID_BY_BAR, req[t].payload.bar_id)
       THEN AfterLookup(t, EXPECTED_RFID_BY_BAR[req[t].payload.bar_id])
       ELSE /\ pc' = [pc EXCEPT ![t] = "learn"]
            /\ UNCHANGED loc
    /\ UNCHANGED <<EXPECTED_RFID_BY_BAR, vault_events, last, req, gw>>

\* _get_expected_rfid, the write of the first UID seen
learn(t) ==
    /\ pc[t] = "learn"
    /\ EXPECTED_RFID_BY_BAR' =
           Learn(EXPECTED_RFID_BY_BAR, req[t].payload.bar_id, req[t].payload.rfid_uid)
    /\ AfterLookup(t, req[t].payload.rfid_uid)
    /\ UNCHANGED <<vault_events, last, req, gw>>

\* _get_last_event_time and rule 6 on the value it returned
query(t) ==
    LET last_ts == get_last_event_time(vault_events, req[t].payload.bar_id)
        out == Replay(ParseTimestamp(req[t].payload.timestamp), last_ts)
    IN  /\ pc[t] = "query"
        /\ loc' = [loc EXCEPT ![t].last_ts = last_ts, ![t].out = out]
        /\ pc' = [pc EXCEPT ![t] = Goto(out, "save")]
        /\ UNCHANGED <<EXPECTED_RFID_BY_BAR, vault_events, last, req, gw>>

\* save_event with the verdict classify_event returned
save(t) ==
    /\ pc[t] = "save"
    /\ vault_events' = save_event(vault_events, req[t].payload, loc[t].out)
    /\ pc' = [pc EXCEPT ![t] = "done"]
    /\ UNCHANGED <<EXPECTED_RFID_BY_BAR, last, req, loc, gw>>

\* the response leaves the server and the thread takes the next call
finish(t) ==
    /\ pc[t] = "done"
    /\ pc' = [pc EXCEPT ![t] = "idle"]
    /\ req' = [req EXCEPT ![t] = NoRequest]
    /\ loc' = [loc EXCEPT ![t] = NoLocals]
    /\ UNCHANGED <<EXPECTED_RFID_BY_BAR, vault_events, last, gw>>

Begin ==
    \E t \in Threads, payload \in ConcPayloads, hash_valid \in BOOLEAN :
        begin(t, payload, hash_valid, TRUE)
Lookup == \E t \in Threads : lookup(t)
LearnFirst == \E t \in Threads : learn(t)
Query == \E t \in Threads : query(t)
Save == \E t \in Threads : save(t)
Finish == \E t \in Threads : finish(t)

ConcNext == Begin \/ Lookup \/ LearnFirst \/ Query \/ Save \/ Finish

ConcSpec == Init /\ [][ConcNext]_vars

----------------------------------------------------------------------------
(* The gateway builds the packet of one reading; the service verifies it *)

Chars(c, n) == [i \in 1..n |-> c]

Readings ==
    [bar_id : {Chars(66, 3)}, gps_lat : {Chars(49, 2)}, gps_lon : {Chars(56, 2)},
     purity : {Chars(57, 2), Chars(57, 3)},
     rfid_uid : {Chars(84, n) : n \in 0..MaxUidLen},
     tamper_status : {Chars(73, 1), Chars(67, 1)},
     timestamp : {Chars(50, 2)},
     vault_door_status : {Chars(67, 1), Chars(79, 1), Chars(70, 1)},
     vault_id : {Chars(86, 3)}]

IVs == {Chars(0, BLOCK_SIZE), Chars(200, BLOCK_SIZE)}

GatewayInit ==
    /\ EXPECTED_RFID_BY_BAR = InitialRegistry
    /\ vault_events = <<>>
    /\ last = NoCall
    /\ pc = [t \in Threads |-> "idle"]
    /\ req = [t \in Threads |-> NoRequest]
    /\ loc = [t \in Threads |-> NoLocals]
    /\ \E reading \in Readings :
          gw = [NoGateway EXCEPT !.stage = "reading", !.reading = reading]

\* send_reading: build_secure_packet(reading), whose load_private_key() reads
\* keys/private_key.pem
Build ==
    /\ gw.stage = "reading"
    /\ \E iv \in IVs :
          gw' = [gw EXCEPT !.stage = "sent", !.packet = build_secure_packet(gw.reading, iv),
                           !.sent = gw.sent + 1, !.key_reads = gw.key_reads + 1]
    /\ UNCHANGED <<EXPECTED_RFID_BY_BAR, vault_events, last, pc, req, loc>>

\* ingest: verify_and_decrypt_packet(packet_dict)
Verify ==
    /\ gw.stage = "sent"
    /\ gw' = [gw EXCEPT !.stage = "verified",
                        !.checked = verify_and_decrypt_packet(gw.packet, load_public_key)]
    /\ UNCHANGED <<EXPECTED_RFID_BY_BAR, vault_events, last, pc, req, loc>>

\* main: the next turn of the loop, send_reading with a new reading
NextReading ==
    /\ gw.stage = "verified"
    /\ gw.sent < MaxReadings
    /\ \E reading \in Readings :
          gw' = [gw EXCEPT !.stage = "reading", !.reading = reading,
                           !.packet = NoPacket, !.checked = NoVerdict]
    /\ UNCHANGED <<EXPECTED_RFID_BY_BAR, vault_events, last, pc, req, loc>>

GatewayNext == Build \/ Verify \/ NextReading

GatewaySpec == GatewayInit /\ [][GatewayNext]_vars

----------------------------------------------------------------------------
(* gateway/crypto/aes_utils.py on its own: a byte string is encrypted and the *)
(* pair returned is decrypted, or the byte string is decrypted as it came     *)

DataBytes == {0, 1, 16, 63, 64, 79, 80, 200}
ByteStrings == {Chars(c, n) : c \in DataBytes, n \in 0..MaxDataLen}
ReceivedIVs == IVs \cup {Chars(0, BLOCK_SIZE - 1)}

CipherInit ==
    /\ EXPECTED_RFID_BY_BAR = InitialRegistry
    /\ vault_events = <<>>
    /\ last = NoCall
    /\ pc = [t \in Threads |-> "idle"]
    /\ req = [t \in Threads |-> NoRequest]
    /\ loc = [t \in Threads |-> NoLocals]
    /\ \E data \in ByteStrings :
          gw = [NoGateway EXCEPT !.stage = "input", !.data = data]

\* ciphertext, iv = encrypt_aes_cbc(plaintext)
Encrypt ==
    /\ gw.stage = "input"
    /\ \E iv \in IVs :
          LET e == encrypt_aes_cbc(gw.data, iv)
          IN  gw' = [gw EXCEPT !.stage = "encrypted", !.ciphertext = e.ciphertext,
                               !.iv = e.iv]
    /\ UNCHANGED <<EXPECTED_RFID_BY_BAR, vault_events, last, pc, req, loc>>

\* decrypt_aes_cbc(ciphertext, iv) of the pair encrypt_aes_cbc returned
DecryptPair ==
    /\ gw.stage = "encrypted"
    /\ gw' = [gw EXCEPT !.stage = "roundtrip",
                        !.result = decrypt_aes_cbc(gw.ciphertext, gw.iv)]
    /\ UNCHANGED <<EXPECTED_RFID_BY_BAR, vault_events, last, pc, req, loc>>

\* decrypt_aes_cbc(ciphertext, iv) of a ciphertext and an iv as they arrive
DecryptReceived ==
    /\ gw.stage = "input"
    /\ \E iv \in ReceivedIVs :
          gw' = [gw EXCEPT !.stage = "decrypted", !.ciphertext = gw.data, !.iv = iv,
                           !.result = decrypt_aes_cbc(gw.data, iv)]
    /\ UNCHANGED <<EXPECTED_RFID_BY_BAR, vault_events, last, pc, req, loc>>

CipherNext == Encrypt \/ DecryptPair \/ DecryptReceived

CipherSpec == CipherInit /\ [][CipherNext]_vars

----------------------------------------------------------------------------
(* The call the server has just served *)

\* the table as the call found it: the call appended one row unless it raised
EventsBefore ==
    IF last.out.raised = ""
    THEN SubSeq(vault_events, 1, Len(vault_events) - 1)
    ELSE vault_events

PassesIntegrity == last.hash_valid /\ last.signature_valid
PassesTimestamp == last.payload.timestamp.type = "str"
PassesTamper == last.payload.tamper_status = "INTACT"
\* the UID is the baseline of the unit, or the unit has none yet
PassesIdentity ==
    last.payload.bar_id \in DOMAIN last.registry
        => last.payload.rfid_uid = last.registry[last.payload.bar_id]
IsNumber(raw) == raw.type = "float"
PassesPurity == IsNumber(last.payload.purity) /\ last.payload.purity.v >= PURITY_MIN
PassesEnclosure == DoorOk(last.payload.vault_door_status, last.payload.bar_id)

\* every rule before replay detection passes; a FORCED_OPEN door is left out,
\* being a breach of the enclosure rule as the specification states it
PassesRules1To6 ==
    /\ PassesIntegrity /\ PassesTimestamp /\ PassesTamper
    /\ PassesIdentity /\ PassesPurity /\ PassesEnclosure
    /\ last.payload.vault_door_status # "FORCED_OPEN"

AcceptedBefore(bar_id) ==
    {i \in 1..Len(EventsBefore) :
        EventsBefore[i].bar_id = bar_id /\ EventsBefore[i].status = "SECURE"}

----------------------------------------------------------------------------
(* Claims *)

\* C1: once a reading of a unit with timestamp T1 is accepted and recorded,
\* a later reading of that unit with timestamp <= T1 that passes rules 1-6
\* is classified BREACH with the replay reason.
C1_ReplayIsBreach ==
    (/\ last.called
     /\ PassesRules1To6
     /\ \E i \in AcceptedBefore(last.payload.bar_id) :
            last.payload.timestamp.t <= EventsBefore[i].timestamp.t)
    => /\ last.out.status = "BREACH"
       /\ last.out.reasons = <<ReplayReason>>

\* C2: for every interleaving of concurrent ingest calls, two readings of one
\* unit that carry the same timestamp are never both classified SECURE.
C2_OneAcceptedPerTimestamp ==
    \A i, j \in 1..Len(vault_events) :
        (/\ i # j
         /\ vault_events[i].bar_id = vault_events[j].bar_id
         /\ vault_events[i].timestamp = vault_events[j].timestamp
         /\ vault_events[i].status = "SECURE")
        => vault_events[j].status # "SECURE"

\* C3: learn-on-first-use. A reading that reaches the identity rule for a unit
\* without a baseline makes its UID the baseline; for a unit with a baseline
\* the registry is left as it is, a different UID is a BREACH with the
\* RFID-mismatch reason and the baseline UID is not flagged as a mismatch.
\* The preconfigured entry of BAR-001 stays TAG12345.
C3_LearnOnFirstUse ==
    /\ EXPECTED_RFID_BY_BAR[ConfiguredBar] = ConfiguredRfid
    /\ (last.called /\ PassesIntegrity /\ PassesTimestamp /\ PassesTamper
            /\ ParsePurity(last.payload.purity).raised = "")
        => LET bar_id == last.payload.bar_id
               rfid_uid == last.payload.rfid_uid
           IN  IF bar_id \notin DOMAIN last.registry
               THEN /\ EXPECTED_RFID_BY_BAR = Learn(last.registry, bar_id, rfid_uid)
                    /\ last.out.reasons # <<RfidReason>>
               ELSE /\ EXPECTED_RFID_BY_BAR = last.registry
                    /\ rfid_uid # last.registry[bar_id]
                         => /\ last.out.status = "BREACH"
                            /\ last.out.reasons = <<RfidReason>>
                    /\ rfid_uid = last.registry[bar_id]
                         => last.out.reasons # <<RfidReason>>

\* C3 witness: a unit that learnt its baseline from an earlier reading is
\* presented another UID, which is flagged
C3_Witness ==
    /\ last.called
    /\ last.payload.bar_id = "BAR-002"
    /\ "BAR-002" \in DOMAIN last.registry
    /\ last.payload.rfid_uid # last.registry["BAR-002"]
    /\ last.out.reasons = <<RfidReason>>
    /\ EXPECTED_RFID_BY_BAR = last.registry

\* C4: the packet build_secure_packet emits for a reading decrypts, with the
\* shared key and the packet's iv, to the canonical plaintext of the reading;
\* the digest recomputed over it equals the embedded digest, the embedded
\* signature verifies against the embedded digest with the public key, and
\* the reading parsed from the plaintext equals the reading.
C4_PacketRoundTrip ==
    gw.stage = "verified"
    => /\ gw.checked.error = ""
       /\ gw.checked.plaintext = Serialize(gw.reading)
       /\ gw.checked.hash_ok
       /\ gw.checked.signature_ok
       /\ gw.checked.reading = Ok(gw.reading)

\* C4 witness: a verified packet whose plaintext fills whole blocks, so that
\* its ciphertext ends with a block of padding
C4_Witness ==
    /\ gw.stage = "verified"
    /\ Len(Serialize(gw.reading)) % BLOCK_SIZE = 0
    /\ Len(b64decode(gw.packet.payload_ciphertext)) = Len(Serialize(gw.reading)) + BLOCK_SIZE
    /\ gw.checked.hash_ok /\ gw.checked.signature_ok

\* C5: a reading whose vault_door_status is FORCED_OPEN, for which
\* classify_event returns a verdict, is classified BREACH.
C5_ForcedOpenIsBreach ==
    (last.called /\ last.out.raised = ""
        /\ last.payload.vault_door_status = "FORCED_OPEN")
    => last.out.status = "BREACH"

\* C6: a reading classified BREACH does not advance the last timestamp the
\* freshness check finds for its unit, and a reading that passes rules 1-6
\* with a timestamp above that of every accepted reading of its unit is
\* classified SECURE.
C6_LedgerAdvancedOnAcceptanceOnly ==
    /\ (last.called /\ last.out.status = "BREACH")
        => get_last_event_time(vault_events, last.payload.bar_id)
               = get_last_event_time(EventsBefore, last.payload.bar_id)
    /\ (/\ last.called
         /\ PassesRules1To6
         /\ \A i \in AcceptedBefore(last.payload.bar_id) :
                last.payload.timestamp.t > EventsBefore[i].timestamp.t)
        => last.out.status = "SECURE"

\* C7: a reading that ends up classified BREACH leaves the identity registry
\* unchanged.
C7_RegistryUpdatedOnAcceptanceOnly ==
    (last.called /\ last.out.status = "BREACH")
    => EXPECTED_RFID_BY_BAR = last.registry

\* C8: when hash_valid or signature_valid is false, classify_event returns
\* BREACH with the one integrity reason, leaves the registry unchanged and
\* does not consult the event store, for every payload.
C8_IntegrityShortCircuit ==
    (last.called /\ ~PassesIntegrity)
    => /\ last.out.raised = ""
       /\ last.out.status = "BREACH"
       /\ last.out.reasons = <<IntegrityReason>>
       /\ EXPECTED_RFID_BY_BAR = last.registry
       /\ ~last.out.queried

\* C9: classify_event returns a status and a reason list and never raises;
\* stated here for the payloads whose purity is a number.
C9_AlwaysRendersVerdict ==
    (last.called /\ IsNumber(last.payload.purity))
    => /\ last.out.raised = ""
       /\ last.out.status \in {"SECURE", "BREACH"}

\* C10: with integrity, timestamp, tamper and identity passing, a reading is
\* classified BREACH with the purity reason exactly when its purity is below
\* PURITY_MIN; purity equal to PURITY_MIN passes the purity rule.
C10_PurityBoundary ==
    (/\ last.called
     /\ PassesIntegrity /\ PassesTimestamp /\ PassesTamper /\ PassesIdentity
     /\ IsNumber(last.payload.purity))
    => LET purity == last.payload.purity.v
       IN  IF purity >= PURITY_MIN
           THEN \A i \in 1..Len(last.out.reasons) :
                    last.out.reasons[i].msg # PurityReason(purity).msg
           ELSE /\ last.out.status = "BREACH"
                /\ last.out.reasons = <<PurityReason(purity)>>

\* C10 witness: a reading with purity equal to PURITY_MIN passes every rule
C10_Witness ==
    /\ last.called
    /\ last.payload.purity = Float(PURITY_MIN)
    /\ PassesRules1To6
    /\ last.out.status = "SECURE"

\* the verdict of the rules applied in the order integrity, timestamp, tamper
\* mesh, identity, purity, enclosure, freshness, stopping at the first one
\* violated; freshness looks at the accepted readings of the unit
ReferenceVerdict(payload, hash_valid, signature_valid, registry, events) ==
    IF ~hash_valid \/ ~signature_valid
    THEN [status |-> "BREACH", reasons |-> <<IntegrityReason>>]
    ELSE IF payload.timestamp.type # "str"
    THEN [status |-> "BREACH", reasons |-> <<TimestampReason>>]
    ELSE IF payload.tamper_status # "INTACT"
    THEN [status |-> "BREACH", reasons |-> <<TamperReason(payload.tamper_status)>>]
    ELSE IF payload.bar_id \in DOMAIN registry /\ payload.rfid_uid # registry[payload.bar_id]
    THEN [status |-> "BREACH", reasons |-> <<RfidReason>>]
    ELSE IF payload.purity.v < PURITY_MIN
    THEN [status |-> "BREACH", reasons |-> <<PurityReason(payload.purity.v)>>]
    ELSE IF \/ payload.vault_door_status = "FORCED_OPEN"
            \/ payload.vault_door_status = "OPEN" /\ payload.bar_id = ""
    THEN [status |-> "BREACH", reasons |-> <<DoorReason>>]
    ELSE IF \E i \in 1..Len(events) :
                /\ events[i].bar_id = payload.bar_id
                /\ events[i].status = "SECURE"
                /\ payload.timestamp.t <= events[i].timestamp.t
    THEN [status |-> "BREACH", reasons |-> <<ReplayReason>>]
    ELSE [status |-> "SECURE", reasons |-> <<>>]

\* C11: the verdict of classify_event is that of the rules applied in the
\* order integrity, timestamp, tamper mesh, identity, purity, enclosure,
\* freshness with a stop at the first violation: one reason, that of the
\* earliest violated rule.  Stated for the payloads whose purity is a number.
C11_RulePriority ==
    (last.called /\ IsNumber(last.payload.purity))
    => LET ref == ReferenceVerdict(last.payload, last.hash_valid, last.signature_valid,
                                   last.registry, EventsBefore)
       IN  /\ last.out.raised = ""
           /\ last.out.status = ref.status
           /\ last.out.reasons = ref.reasons

\* C12: when exactly one of hash_valid and signature_valid is false, the
\* reason classify_event returns tells which: the same payload with the other
\* check failing instead is given a different reason.
C12_IntegrityReasonNamesCheck ==
    (last.called /\ last.out.raised = "" /\ last.hash_valid # last.signature_valid)
    => classify_event(last.payload, ~last.hash_valid, ~last.signature_valid,
                      last.registry, EventsBefore).out.reasons # last.out.reasons

\* C13: every call returns a status that is SECURE or BREACH, SECURE exactly
\* when the reason list is empty and BREACH exactly when it is not.  Stated
\* for the payloads whose purity is a number.
C13_VerdictWellFormed ==
    (last.called /\ IsNumber(last.payload.purity))
    => /\ last.out.raised = ""
       /\ last.out.status \in {"SECURE", "BREACH"}
       /\ last.out.status = "SECURE" <=> last.out.reasons = <<>>
       /\ last.out.status = "BREACH" <=> last.out.reasons # <<>>

\* C14: decrypt_aes_cbc of any ciphertext and iv returns a plaintext or fails
\* with the one error kind of padding and cipher failures (ValueError); no
\* other kind of failure leaves it.
C14_MalformedCiphertextFailsCleanly ==
    gw.stage = "decrypted" => gw.result.raised \in {"", "ValueError"}

\* C17: _pkcs7_pad(p) is p followed by pad bytes, its length is the smallest
\* multiple of 16 above len(p), every pad byte is the pad length,
\* _pkcs7_unpad(_pkcs7_pad(p)) = p, and decrypt_aes_cbc of the pair
\* encrypt_aes_cbc(p) returned is p.
C17_PaddingRoundTrip ==
    gw.stage \in {"encrypted", "roundtrip"}
    => LET p == gw.data
           padded == pkcs7_pad(p)
           pad_len == Len(padded) - Len(p)
       IN  /\ Len(padded) = BLOCK_SIZE * ((Len(p) \div BLOCK_SIZE) + 1)
           /\ SubSeq(padded, 1, Len(p)) = p
           /\ \A i \in (Len(p) + 1)..Len(padded) : padded[i] = pad_len
           /\ pkcs7_unpad(padded) = Ok(p)
           /\ Len(gw.ciphertext) = Len(padded)
           /\ gw.stage = "roundtrip" => gw.result = Ok(p)

\* C17 witness: a plaintext of two whole blocks, which gets a block of
\* padding, came back from the round trip
C17_Witness ==
    /\ gw.stage = "roundtrip"
    /\ Len(gw.data) = 2 * BLOCK_SIZE
    /\ Len(gw.ciphertext) = 3 * BLOCK_SIZE
    /\ gw.result = Ok(gw.data)

\* what the registry and the table hold for one unit
OwnEntry(registry, bar_id) == [b \in (DOMAIN registry) \cap {bar_id} |-> registry[b]]
OwnRows(events, bar_id) == SelectSeq(events, LAMBDA e : e.bar_id = bar_id)

\* the unit of the call thread t is serving in this step
UnitOf(t) == IF pc[t] = "idle" THEN req'[t].payload.bar_id ELSE req[t].payload.bar_id

\* a step of thread t leaves the registry entry and the rows of every other unit
LeavesOtherUnits(t) ==
    \A b \in ({ConfiguredBar} \cup {p.bar_id : p \in ConcPayloads}) \ {UnitOf(t)} :
        /\ OwnEntry(EXPECTED_RFID_BY_BAR', b) = OwnEntry(EXPECTED_RFID_BY_BAR, b)
        /\ OwnRows(vault_events', b) = OwnRows(vault_events, b)
        /\ get_last_event_time(vault_events', b) = get_last_event_time(vault_events, b)

\* what a step of thread t reads is what the registry and the table hold for
\* its own unit
ReadsOwnUnit(t) ==
    LET bar_id == req[t].payload.bar_id
        entry == OwnEntry(EXPECTED_RFID_BY_BAR, bar_id)
        last_ts == get_last_event_time(OwnRows(vault_events, bar_id), bar_id)
    IN  /\ pc[t] = "lookup"
            => /\ pc'[t] = "learn" <=> ~InRegistry(entry, bar_id)
               /\ pc'[t] # "learn" => loc'[t].expected_rfid = entry[bar_id]
        /\ pc[t] = "query"
            => /\ loc'[t].last_ts = last_ts
               /\ loc'[t].out = Replay(ParseTimestamp(req[t].payload.timestamp), last_ts)

\* C15: in every interleaving of the calls, a step of a call for one unit
\* leaves the registry entry and the last recorded timestamp of every other
\* unit unchanged, and what a call reads, hence its verdict and reasons, is
\* determined by the registry entry and the rows of its own unit.
C15_NoSharedStateAcrossUnits ==
    [][\A t \in Threads : pc'[t] # pc[t] => LeavesOtherUnits(t) /\ ReadsOwnUnit(t)]_vars

\* C15 witness: calls for two units were in flight together; both units have
\* a row and the unconfigured unit has learnt its baseline
C15_Witness ==
    /\ pc[1] = "done" /\ pc[2] = "done"
    /\ req[1].payload.bar_id = "BAR-002" /\ req[2].payload.bar_id = ConfiguredBar
    /\ loc[1].out.status = "SECURE" /\ loc[2].out.status = "SECURE"
    /\ "BAR-002" \in DOMAIN EXPECTED_RFID_BY_BAR
    /\ Len(OwnRows(vault_events, "BAR-002")) = 1
    /\ Len(OwnRows(vault_events, ConfiguredBar)) = 1

\* C16: over the build_secure_packet calls of one process the private key is
\* read from its file at most once, at the first call.
C16_PrivateKeyReadOnce ==
    gw.sent >= 1 => gw.key_reads = 1

\* C18: every reading simulate_sensor_reading produces for the normal
\* scenario, with valid hash and signature and a timestamp newer than the
\* unit's last event, is classified SECURE with no reasons.
C18_NormalScenarioIsSecure ==
    (/\ last.called
     /\ Located(last.payload, VAULT_LAT, VAULT_LON) \in simulate_sensor_reading("normal")
     /\ last.hash_valid /\ last.signature_valid
     /\ \A i \in RowsOf(EventsBefore, last.payload.bar_id) :
            /\ EventsBefore[i].timestamp.type = "str"
            /\ EventsBefore[i].timestamp.t < last.payload.timestamp.t)
    => /\ last.out.raised = ""
       /\ last.out.status = "SECURE"
       /\ last.out.reasons = <<>>

\* C19: two payloads that differ only in gps_lat / gps_lon, classified from
\* the same registry and table with the same hash_valid and signature_valid,
\* get the same status and reasons and leave the same registry.
C19_LocationIgnored ==
    (last.called /\ "gps_lat" \in DOMAIN last.payload)
    => \A gps_lat \in Latitudes, gps_lon \in Longitudes :
          LET moved == [last.payload EXCEPT !.gps_lat = gps_lat, !.gps_lon = gps_lon]
              c == classify_event(moved, last.hash_valid, last.signature_valid,
                                  last.registry, EventsBefore)
          IN  /\ c.out = last.out
              /\ c.registry = EXPECTED_RFID_BY_BAR

\* C19 witness: a reading located away from the vault, of a unit without a
\* baseline, passed the identity rule, which learnt its UID, and was accepted
C19_Witness ==
    /\ last.called
    /\ last.payload.gps_lat = VAULT_LAT + GpsBreachOffset
    /\ last.payload.gps_lon = VAULT_LON + GpsBreachOffset
    /\ last.payload.bar_id = "BAR-002"
    /\ EXPECTED_RFID_BY_BAR # last.registry
    /\ last.out.status = "SECURE"

\* C20: for every table ingest wrote, the dashboard's breach total is the
\* number of rows classified BREACH, its BREACH filter shows exactly those
\* rows, and "No breaches detected." is shown only when there is none.
C20_DashboardAgreesWithEngine ==
    Len(vault_events) > 0
    => LET df == load_events(vault_events)
           breaches == SelectSeq(df, LAMBDA r : r.Status = "BREACH")
       IN  /\ breach_summary(df).total = Len(breaches)
           /\ filtered_df(df, "BREACH") = breaches
           /\ breach_summary(df).shown = "No breaches detected." => breaches = <<>>

\* the call thread t is serving has passed the identity rule: the UID it
\* carries is the expected UID _get_expected_rfid returned to it
PassedIdentity(t) ==
    /\ pc[t] \in {"query", "save", "done"}
    /\ loc[t].expected_rfid # ""
    /\ loc[t].expected_rfid = req[t].payload.rfid_uid

\* C21: in every interleaving of concurrent calls for one unit that had no
\* baseline, at most one UID passes the identity rule: two readings with
\* different UIDs are never both taken as matching the baseline.
C21_IdentityBaselineUnique ==
    \A t1, t2 \in Threads :
        (/\ PassedIdentity(t1) /\ PassedIdentity(t2)
         /\ req[t1].payload.bar_id = req[t2].payload.bar_id
         /\ req[t1].payload.bar_id \notin DOMAIN InitialRegistry)
        => req[t1].payload.rfid_uid = req[t2].payload.rfid_uid

====
